---- MODULE Spec2Model ----
(***************************************************************************)
(* Model of the plotting scripts of the repository:                        *)
(*   "depth"   src/soil_temperature_depth.py  (72 h, four depth curves)    *)
(*   "profile" src/unnamed/part_000, Soil temperature profile.py (24 h)    *)
(*   "tdr"     src/unnamed/part_000, TDR waveform.py                       *)
(* Each script is a straight-line program followed by an animation whose   *)
(* callback update(frame) is called by FuncAnimation.                      *)
(*                                                                         *)
(* Real numbers are fixed-point integers: the real x is the integer        *)
(* x * ONE truncated.  np.sin, np.exp and np.sqrt are computed by series,  *)
(* squaring and bisection on these integers.  Every cell of the two fields *)
(* of the model is within 1e-4 degrees of the double the script computes,  *)
(* and every row has its largest sample at the same index.                 *)
(***************************************************************************)
EXTENDS Integers, Sequences, FiniteSets

VARIABLES
    script,            \* which script runs: "depth", "profile" or "tdr"
    pc,                \* position in the script
    params,            \* [mean, amplitude, k, P] of the soil scripts
    raised,            \* the exception that ended the script, or "none"
    time_points,       \* np.arange(...)     (hours, fixed-point)
    depth_points,      \* np.linspace(...)   (cm, fixed-point, <= 0)
    soil_temperature,  \* the field: a sequence of rows, one per depth
    depth_indices,     \* depth script: row index of each curve
    lines,             \* depth script: the (x, y) data of the four curves
    line,              \* profile script: the x data of the profile curve
    time_marker,       \* depth script: x of the vertical marker
    time_text,         \* <<hour, minute>> shown, or <<>> before a frame
    frame_seq,         \* tdr: the next frame FuncAnimation renders
    waveform_line,     \* tdr: number of waveform samples drawn
    signal_arrow,      \* tdr: current_dist, in units of 1 / PerCm cm
    an_x1, an_x1_text, an_x2, an_x2_text, an_La, an_La_text  \* visibility

vars == <<script, pc, params, raised, time_points, depth_points, soil_temperature,
          depth_indices, lines, line, time_marker, time_text, frame_seq,
          waveform_line, signal_arrow,
          an_x1, an_x1_text, an_x2, an_x2_text, an_La, an_La_text>>

----------------------------------------------------------------------------
(* Fixed-point arithmetic *)

ONE == 1000 * 1000

Abs(x) == IF x < 0 THEN -x ELSE x

Sgn(x) == IF x < 0 THEN -1 ELSE 1

\* a * b of two non-negative fixed-point numbers, by limbs of 1000 so that
\* no intermediate product leaves 32 bits
MulAbs(a, b) ==
    LET ah == a \div 1000
        al == a % 1000
        bh == b \div 1000
        bl == b % 1000
    IN  ah * bh + (ah * bl + al * bh + (al * bl) \div 1000) \div 1000

\* the float product a * b
Mul(a, b) == Sgn(a) * Sgn(b) * MulAbs(Abs(a), Abs(b))

\* largest q in lo..hi with q * b <= a (hi + 1 fails, lo holds)
RECURSIVE DivSearch(_, _, _, _)
DivSearch(a, b, lo, hi) ==
    IF lo = hi THEN lo
    ELSE LET mid == (lo + hi + 1) \div 2
         IN  IF MulAbs(mid, b) <= a
             THEN DivSearch(a, b, mid, hi)
             ELSE DivSearch(a, b, lo, mid - 1)

\* the float quotient a / b for a >= 0 and b >= 1.0
Div(a, b) == DivSearch(a, b, 0, a)

\* r * r <= v exactly: the integer part of r * r, then its fraction
SquareAtMost(r, v) ==
    LET rh == r \div 1000
        rl == r % 1000
        frac == (((2 * rh * rl) % 1000) * 1000 + rl * rl) % ONE
    IN  \/ MulAbs(r, r) < v
        \/ MulAbs(r, r) = v /\ frac = 0

RECURSIVE SqrtSearch(_, _, _)
SqrtSearch(v, lo, hi) ==
    IF lo = hi THEN lo
    ELSE LET mid == (lo + hi + 1) \div 2
         IN  IF SquareAtMost(mid, v)
             THEN SqrtSearch(v, mid, hi)
             ELSE SqrtSearch(v, lo, mid - 1)

\* np.sqrt of v >= 0 (a negative v gives nan: see SqrtPiOver)
Sqrt(v) == SqrtSearch(v, 0, IF v > ONE THEN v ELSE ONE)

\* np.pi
PI == 3141593

\* exp(-y) for 0 <= y <= 1/2, by its series to y^9
ExpSeries(y) ==
    LET t8 == ONE - y \div 9
        t7 == ONE - Mul(y, t8) \div 8
        t6 == ONE - Mul(y, t7) \div 7
        t5 == ONE - Mul(y, t6) \div 6
        t4 == ONE - Mul(y, t5) \div 5
        t3 == ONE - Mul(y, t4) \div 4
        t2 == ONE - Mul(y, t3) \div 3
        t1 == ONE - Mul(y, t2) \div 2
    IN  ONE - Mul(y, t1)

\* exp(-y) for y >= 0: halve the argument until the series applies, square back
RECURSIVE ExpNeg(_)
ExpNeg(y) ==
    IF 2 * y <= ONE THEN ExpSeries(y)
    ELSE LET h == ExpNeg(y \div 2) IN Mul(h, h)

\* np.exp(x) for x <= 0
Exp(x) == ExpNeg(-x)

\* sin(x) for -pi/2 <= x <= pi/2, by its series to x^11
SinSeries(x) ==
    LET x2 == Mul(x, x)
        t5 == ONE - x2 \div 110
        t4 == ONE - Mul(x2, t5) \div 72
        t3 == ONE - Mul(x2, t4) \div 42
        t2 == ONE - Mul(x2, t3) \div 20
        t1 == ONE - Mul(x2, t2) \div 6
    IN  Mul(x, t1)

\* np.sin(x): reduce x to (-pi, pi], fold onto [-pi/2, pi/2], then the series
Sin(x) ==
    LET r == x % (2 * PI)
        a == IF r > PI THEN r - 2 * PI ELSE r
        f == IF 2 * a > PI THEN PI - a
             ELSE IF 2 * a < -PI THEN -PI - a
             ELSE a
    IN  SinSeries(f)

\* a / n for a whole number n > 0, rounded towards zero
Quot(a, n) == Sgn(a) * (Abs(a) \div n)

\* j * d / n for whole numbers j >= 0, n > 0 and a fixed-point d >= 0
MulDivInt(j, d, n) ==
    LET a == j * (d \div 1000)
    IN  (a \div n) * 1000 + ((a % n) * 1000 + j * (d % 1000)) \div n

----------------------------------------------------------------------------
(* The periodic diffusion field, lines 10-23 (depth) and 13-41 (profile) *)

surface_temp_amplitude == 10

surface_temp_mean == 25

\* k = 0.005 * 3600, cm^2/h: 0.005 is 5000 in fixed point, 3600 a whole number
k == 5000 * 3600

\* P = 24, hours
P == 24

\* np.arange(0, stop, 0.25): start + j * step for j < stop / step
arange(stop) == [j \in 1..(4 * stop) |-> (j - 1) * (ONE \div 4)]

\* np.linspace(0, -depth, num): j * (stop - start) / (num - 1), downwards
linspace(depth, num) ==
    [j \in 1..num |-> -MulDivInt(j - 1, depth * ONE, num - 1)]

\* mutant: the square root left out
SqrtPiOver_nosqrt(kP) == Div(PI, kP)

\* np.sqrt(np.pi / (k * P))
SqrtPiOver(kP) == Sqrt(Div(PI, kP))

\* mutant: the sign of the exponent lost, exp(+z * sqrt(...)); the series of
\* ExpSeries is then summed at a negative argument, where it exceeds 1
decay_factor_growing(z, kP) == ExpSeries(-Mul(z, SqrtPiOver(kP)))

\* decay_factor = np.exp(-z * np.sqrt(np.pi / (k * P)))
decay_factor(z, kP) == Exp(Mul(-z, SqrtPiOver(kP)))

\* mutant: the sign of the lag lost, so that deeper rows lead
phase_lag_lead(z, kP) == Mul(z, SqrtPiOver(kP))

\* phase_lag = -z * np.sqrt(np.pi / (k * P))
phase_lag(z, kP) == Mul(-z, SqrtPiOver(kP))

\* mutant: the peak put at noon, (time_grid - 6)
ForcingAngle_noon(t) == Quot(Mul(PI, t - 6 * ONE), 12)

\* mutant: a half period of 13 hours
ForcingAngle_slow(t) == Quot(Mul(PI, t - 8 * ONE), 13)

\* np.pi * (time_grid - 8) / 12
ForcingAngle(t) == Quot(Mul(PI, t - 8 * ONE), 12)

\* one cell: mean + amplitude * decay_factor * sin(angle + phase_lag)
Cell(mean, amp, decay, lag, t) ==
    mean + Mul(Mul(amp, decay), Sin(ForcingAngle(t) + lag))

\* one row of the field: z = -depth, then every time of the grid
FieldRow(tp, depth, mean, amp, kP) ==
    LET z == -depth
        decay == decay_factor(z, kP)
        lag == phase_lag(z, kP)
    IN  [j \in 1..Len(tp) |-> Cell(mean, amp, decay, lag, tp[j])]

\* mutant: the rows in the opposite order of depth_points
Field_flipped(tp, dp, mean, amp, kP) ==
    [i \in 1..Len(dp) |-> FieldRow(tp, dp[Len(dp) + 1 - i], mean, amp, kP)]

\* soil_temperature over meshgrid(time_points, depth_points): rows are depths
Field(tp, dp, mean, amp, kP) ==
    [i \in 1..Len(dp) |-> FieldRow(tp, dp[i], mean, amp, kP)]

\* the field when k * P < 0: np.sqrt of a negative number is nan (with a
\* RuntimeWarning), and nan spreads through every product and sum
NanField(tp, dp) == [i \in 1..Len(dp) |-> [j \in 1..Len(tp) |-> "nan"]]

\* k * P for a fixed-point k and a whole number P
TimesWhole(kk, PP) == kk * PP

\* lines 16-23: what the statements do with these values of the names.
\* np.pi / (k * P) is a division of Python floats: k * P = 0 raises
\* ZeroDivisionError.  Nothing else is checked.
FieldOutcome(tp, dp, par) ==
    LET kP == TimesWhole(par.k, par.P)
    IN  IF kP = 0
        THEN [raised |-> "ZeroDivisionError", field |-> <<>>]
        ELSE IF kP < 0
        THEN [raised |-> "none", field |-> NanField(tp, dp)]
        ELSE [raised |-> "none",
              field |-> Field(tp, dp, par.mean, par.amplitude, kP)]

----------------------------------------------------------------------------
(* Script constants *)

\* hours covered by np.arange(0, 72, 0.25) and np.arange(0, 24, 0.25)
DepthHours == 72

ProfileHours == 24

\* np.linspace(0, -50, 51) and np.linspace(0, -50, 50)
MaxDepth == 50

DepthCount == 51

ProfileCount == 50

depths_to_plot == <<-5, -10, -20, -50>>

\* TDR waveform.py, lines 120-127 and 169
cable_length == 35

sensor_body_length == 10

probe_apparent_length == 70

plot_start_position == 30

cable_apparent_length == plot_start_position + cable_length + sensor_body_length

total_apparent_length == cable_apparent_length + probe_apparent_length

plot_end_distance == 200

num_frames == 250

\* the number of samples of np.linspace(0, plot_end_distance, 800)
WaveformSamples == 800

SoilScripts == {"depth", "profile"}

Scripts == SoilScripts \cup {"tdr"}

\* strftime('%H:%M') of datetime(2023, 1, 1) + timedelta(minutes=int(t * 60))
TimeOfDay(t) ==
    LET minutes == MulDivInt(60, t, ONE)
    IN  <<(minutes \div 60) % 24, minutes % 60>>

\* mutant: s[:n - 1]
Prefix_short(s, n) == SubSeq(s, 1, n - 1)

\* s[:n] of a sequence
Prefix(s, n) == SubSeq(s, 1, n)

\* soil_temperature[:, frame]: the column of a 0-based frame
Column(field, frame) == [i \in 1..Len(field) |-> field[i][frame + 1]]

\* first index in lo..hi of a smallest element, as ndarray.argmin (1-based)
RECURSIVE ArgMinIn(_, _, _)
ArgMinIn(s, lo, hi) ==
    IF lo = hi THEN lo
    ELSE LET mid == (lo + hi) \div 2
             a == ArgMinIn(s, lo, mid)
             b == ArgMinIn(s, mid + 1, hi)
         IN  IF s[b] < s[a] THEN b ELSE a

\* np.abs(depth_points - d).argmin()
NearestDepthIndex(dp, d) ==
    ArgMinIn([i \in 1..Len(dp) |-> Abs(dp[i] - d * ONE)], 1, Len(dp))

\* data_series: the rows sliced from the field (numpy views of it)
data_series == [n \in 1..4 |-> soil_temperature[depth_indices[n]]]

----------------------------------------------------------------------------
(* The soil temperature scripts *)

\* lines 10-23 (depth), 13-41 (profile): the domains and the field
Generate ==
    /\ script \in SoilScripts
    /\ pc = "start"
    /\ time_points' = arange(IF script = "depth" THEN DepthHours ELSE ProfileHours)
    /\ depth_points' = linspace(MaxDepth,
                          IF script = "depth" THEN DepthCount ELSE ProfileCount)
    /\ params' = [mean |-> surface_temp_mean * ONE,
                  amplitude |-> surface_temp_amplitude * ONE,
                  k |-> k, P |-> P]
    /\ LET out == FieldOutcome(time_points', depth_points', params')
       IN  /\ soil_temperature' = out.field
           /\ raised' = out.raised
           /\ pc' = IF out.raised = "none" THEN "generated" ELSE "failed"
    /\ UNCHANGED <<script, depth_indices, lines, line, time_marker, time_text,
                   frame_seq, waveform_line, signal_arrow,
                   an_x1, an_x1_text, an_x2, an_x2_text, an_La, an_La_text>>

\* depth, lines 27-34: the rows nearest to the depths of interest
Extract ==
    /\ script = "depth"
    /\ pc = "generated"
    /\ depth_indices' = [n \in 1..4 |->
                            NearestDepthIndex(depth_points, depths_to_plot[n])]
    /\ pc' = "extracted"
    /\ UNCHANGED <<script, params, raised, time_points, depth_points, soil_temperature, lines,
                   line, time_marker, time_text, frame_seq, waveform_line,
                   signal_arrow,
                   an_x1, an_x1_text, an_x2, an_x2_text, an_La, an_La_text>>

\* depth, lines 37-63: four empty curves, the marker at 0, an empty text
\* profile, lines 47-72: the curve of frame 0, an empty text
InitPlot ==
    /\ \/ /\ script = "depth"
          /\ pc = "extracted"
          /\ lines' = [n \in 1..4 |-> [x |-> <<>>, y |-> <<>>]]
          /\ time_marker' = 0
          /\ line' = line
       \/ /\ script = "profile"
          /\ pc = "generated"
          /\ line' = Column(soil_temperature, 0)
          /\ UNCHANGED <<lines, time_marker>>
    /\ time_text' = <<>>
    /\ pc' = "animating"
    /\ UNCHANGED <<script, params, raised, time_points, depth_points, soil_temperature,
                   depth_indices, frame_seq, waveform_line, signal_arrow,
                   an_x1, an_x1_text, an_x2, an_x2_text, an_La, an_La_text>>

\* depth, lines 67-84: update(frame)
UpdateDepth(frame) ==
    /\ script = "depth"
    /\ pc = "animating"
    /\ lines' = [n \in 1..4 |->
                    [x |-> Prefix(time_points, frame + 1),
                     y |-> Prefix(data_series[n], frame + 1)]]
    /\ time_marker' = time_points[frame + 1]
    /\ time_text' = TimeOfDay(time_points[frame + 1])
    /\ UNCHANGED <<script, pc, params, raised, time_points, depth_points, soil_temperature,
                   depth_indices, line, frame_seq, waveform_line, signal_arrow,
                   an_x1, an_x1_text, an_x2, an_x2_text, an_La, an_La_text>>

\* mutant: the callback turns the column it draws upside down, in place
UpdateProfile_inplace(frame) ==
    /\ script = "profile"
    /\ pc = "animating"
    /\ line' = Column(soil_temperature, frame)
    /\ soil_temperature' =
           [i \in 1..Len(soil_temperature) |->
               [soil_temperature[i] EXCEPT ![frame + 1] =
                   soil_temperature[Len(soil_temperature) + 1 - i][frame + 1]]]
    /\ time_text' = TimeOfDay(time_points[frame + 1])
    /\ UNCHANGED <<script, pc, params, raised, time_points, depth_points,
                   depth_indices, lines, time_marker, frame_seq, waveform_line,
                   signal_arrow,
                   an_x1, an_x1_text, an_x2, an_x2_text, an_La, an_La_text>>

\* profile, lines 77-87: update(frame)
UpdateProfile(frame) ==
    /\ script = "profile"
    /\ pc = "animating"
    /\ line' = Column(soil_temperature, frame)
    /\ time_text' = TimeOfDay(time_points[frame + 1])
    /\ UNCHANGED <<script, pc, params, raised, time_points, depth_points, soil_temperature,
                   depth_indices, lines, time_marker, frame_seq, waveform_line,
                   signal_arrow,
                   an_x1, an_x1_text, an_x2, an_x2_text, an_La, an_La_text>>

\* FuncAnimation(fig, update, frames=len(time_points)): a frame of the range
UpdateSoil ==
    \E frame \in 0..(Len(time_points) - 1) :
        UpdateDepth(frame) \/ UpdateProfile(frame)

\* plt.close() after ani.save: no callback runs any more
Close ==
    /\ pc = "animating"
    /\ script = "tdr" => frame_seq > num_frames
    /\ pc' = "closed"
    /\ UNCHANGED <<script, params, raised, time_points, depth_points, soil_temperature,
                   depth_indices, lines, line, time_marker, time_text,
                   frame_seq, waveform_line, signal_arrow,
                   an_x1, an_x1_text, an_x2, an_x2_text, an_La, an_La_text>>

----------------------------------------------------------------------------
(* The TDR waveform script.  Its distances are the rationals                *)
(* 200 * i / 799 and 30 + 170 * frame / 250; they are kept exactly, as      *)
(* whole multiples of 1 / PerCm cm.  No two of them, and none of them and a *)
(* threshold, are closer than 1 / PerCm cm unless they are equal, so the    *)
(* comparisons of the doubles come out the same.                            *)

PerCm == (WaveformSamples - 1) * num_frames

Cm(x) == x * PerCm

\* x_waveform[i] = np.linspace(0, plot_end_distance, 800)[i], 0-based
x_waveform(i) == plot_end_distance * i * num_frames

\* mutant: plot_start_position + (frame / num_frames) * plot_end_distance
current_dist_overshoot(frame) ==
    Cm(plot_start_position) + frame * (WaveformSamples - 1) * plot_end_distance

\* line 225: plot_start_position + (frame / num_frames) * (end - start)
current_dist(frame) ==
    Cm(plot_start_position)
        + frame * (WaveformSamples - 1) * (plot_end_distance - plot_start_position)

\* line 226: mask = x_waveform <= current_dist, as the set of indices kept
Mask(dist) == {i \in 0..(WaveformSamples - 1) : x_waveform(i) <= dist}

\* lines 230 and 233: the two tests that show the annotations
PastX1(dist) == dist > Cm(cable_apparent_length + 2)

PastX2(dist) == dist > Cm(total_apparent_length + 2)

\* lines 169-220: an empty waveform, hidden annotations, the arrow at 0
InitPlotTdr ==
    /\ script = "tdr"
    /\ pc = "start"
    /\ waveform_line' = {}
    /\ signal_arrow' = 0
    /\ an_x1' = FALSE /\ an_x1_text' = FALSE
    /\ an_x2' = FALSE /\ an_x2_text' = FALSE
    /\ an_La' = FALSE /\ an_La_text' = FALSE
    /\ frame_seq' = 0
    /\ pc' = "animating"
    /\ UNCHANGED <<script, params, raised, time_points, depth_points,
                   soil_temperature, depth_indices, lines, line, time_marker,
                   time_text>>

\* lines 224-238: update(frame); set_visible(True) is the only call made on
\* the annotations
UpdateTdrFrame(frame) ==
    LET dist == current_dist(frame)
    IN  /\ waveform_line' = Mask(dist)
        /\ signal_arrow' = dist
        /\ an_x1' = (an_x1 \/ PastX1(dist))
        /\ an_x1_text' = (an_x1_text \/ PastX1(dist))
        /\ an_x2' = (an_x2 \/ PastX2(dist))
        /\ an_x2_text' = (an_x2_text \/ PastX2(dist))
        /\ an_La' = (an_La \/ PastX2(dist))
        /\ an_La_text' = (an_La_text \/ PastX2(dist))

\* line 241: FuncAnimation(fig, update, frames=num_frames+1) renders
\* range(num_frames + 1) in order
UpdateTdr ==
    /\ script = "tdr"
    /\ pc = "animating"
    /\ frame_seq <= num_frames
    /\ UpdateTdrFrame(frame_seq)
    /\ frame_seq' = frame_seq + 1
    /\ UNCHANGED <<script, pc, params, raised, time_points, depth_points,
                   soil_temperature, depth_indices, lines, line, time_marker,
                   time_text>>

----------------------------------------------------------------------------
(* The scripts as run *)

Init ==
    /\ script \in Scripts
    /\ pc = "start"
    /\ params = <<>>
    /\ raised = "none"
    /\ time_points = <<>>
    /\ depth_points = <<>>
    /\ soil_temperature = <<>>
    /\ depth_indices = <<>>
    /\ lines = <<>>
    /\ line = <<>>
    /\ time_marker = 0
    /\ time_text = <<>>
    /\ frame_seq = 0
    /\ waveform_line = {}
    /\ signal_arrow = 0
    /\ an_x1 = FALSE /\ an_x1_text = FALSE
    /\ an_x2 = FALSE /\ an_x2_text = FALSE
    /\ an_La = FALSE /\ an_La_text = FALSE

Next ==
    \/ Generate
    \/ Extract
    \/ InitPlot
    \/ UpdateSoil
    \/ InitPlotTdr
    \/ UpdateTdr
    \/ Close

Spec == Init /\ [][Next]_vars

----------------------------------------------------------------------------
(* The generator on other inputs: lines 10-23 with the names time_points,   *)
(* depth_points, surface_temp_amplitude, k and P bound to drawn values      *)

\* longest domain drawn
MaxDomainLen == 3

\* hours between two drawn times, cm between two drawn depths
InputTimeStep == 6 * ONE

InputDepthStep == 10 * ONE

InputTimes ==
    {<<>>}
        \cup {[j \in 1..n |-> (j - 1) * InputTimeStep] : n \in 1..MaxDomainLen}
        \cup {[j \in 1..n |-> (n - j) * InputTimeStep] : n \in 2..MaxDomainLen}

InputDepths ==
    {<<>>}
        \cup {[j \in 1..n |-> -(j - 1) * InputDepthStep] : n \in 1..MaxDomainLen}
        \cup {[j \in 1..n |-> -j * InputDepthStep] : n \in 1..MaxDomainLen}

InputParams ==
    [mean : {surface_temp_mean * ONE},
     amplitude : {-surface_temp_amplitude * ONE, 0, surface_temp_amplitude * ONE},
     k : {-k, 0, k},
     P : {-P, 0, P}]

InitInputs ==
    /\ script \in SoilScripts
    /\ pc = "start"
    /\ params \in InputParams
    /\ raised = "none"
    /\ time_points \in InputTimes
    /\ depth_points \in InputDepths
    /\ soil_temperature = <<>>
    /\ depth_indices = <<>>
    /\ lines = <<>>
    /\ line = <<>>
    /\ time_marker = 0
    /\ time_text = <<>>
    /\ frame_seq = 0
    /\ waveform_line = {}
    /\ signal_arrow = 0
    /\ an_x1 = FALSE /\ an_x1_text = FALSE
    /\ an_x2 = FALSE /\ an_x2_text = FALSE
    /\ an_La = FALSE /\ an_La_text = FALSE

\* lines 18-23 (depth), 32-41 (profile) on the drawn values
GenerateFrom ==
    /\ script \in SoilScripts
    /\ pc = "start"
    /\ LET out == FieldOutcome(time_points, depth_points, params)
       IN  /\ soil_temperature' = out.field
           /\ raised' = out.raised
           /\ pc' = IF out.raised = "none" THEN "generated" ELSE "failed"
    /\ UNCHANGED <<script, params, time_points, depth_points, depth_indices,
                   lines, line, time_marker, time_text, frame_seq,
                   waveform_line, signal_arrow,
                   an_x1, an_x1_text, an_x2, an_x2_text, an_La, an_La_text>>

NextInputs == GenerateFrom

SpecInputs == InitInputs /\ [][NextInputs]_vars

----------------------------------------------------------------------------
(* Quantities the properties speak of *)

\* a soil script has computed its field
FieldReady ==
    script \in SoilScripts /\ pc \in {"generated", "extracted", "animating", "closed"}

\* a soil script has just computed its field: the state the properties of the
\* generator's result are read in (C7: the field is the same ever after)
FieldComputed == script \in SoilScripts /\ pc = "generated"

\* an update(frame) of a soil script has run
Rendered == script \in SoilScripts /\ time_text # <<>>

\* the rounding of the fixed-point arithmetic: 1e-4 degrees
Tol == ONE \div 10000

Close2(a, b) == Abs(a - b) <= Tol

meanTemperature == surface_temp_mean * ONE

amplitude == surface_temp_amplitude * ONE

\* samples in one period of the forcing: the step is a quarter of an hour
PeriodSteps == 4 * P

\* largest and smallest element of s[lo..hi], by halves
RECURSIVE RangeMax(_, _, _)
RangeMax(s, lo, hi) ==
    IF lo = hi THEN s[lo]
    ELSE LET mid == (lo + hi) \div 2
             a == RangeMax(s, lo, mid)
             b == RangeMax(s, mid + 1, hi)
         IN  IF b > a THEN b ELSE a

RECURSIVE RangeMin(_, _, _)
RangeMin(s, lo, hi) ==
    IF lo = hi THEN s[lo]
    ELSE LET mid == (lo + hi) \div 2
             a == RangeMin(s, lo, mid)
             b == RangeMin(s, mid + 1, hi)
         IN  IF b < a THEN b ELSE a

RowMax(s) == RangeMax(s, 1, Len(s))

RowMin(s) == RangeMin(s, 1, Len(s))

\* peak-to-trough swing of a row over the time domain
Swing(s) == RowMax(s) - RowMin(s)

\* the first index in lo..hi at which s is largest
RECURSIVE ArgMaxIn(_, _, _)
ArgMaxIn(s, lo, hi) ==
    IF lo = hi THEN lo
    ELSE LET mid == (lo + hi) \div 2
             a == ArgMaxIn(s, lo, mid)
             b == ArgMaxIn(s, mid + 1, hi)
         IN  IF s[b] > s[a] THEN b ELSE a

\* the 0-based index of the first sample at which a row is largest
TimeOfMax(s) == ArgMaxIn(s, 1, Len(s)) - 1

\* how many samples after the surface a row peaks, modulo one period
PeakLag(i) ==
    (TimeOfMax(soil_temperature[i]) - TimeOfMax(soil_temperature[1])) % PeriodSteps

Rows == 1..Len(soil_temperature)

Times == 1..Len(time_points)

\* depth magnitude of a row
Magnitude(i) == -depth_points[i]

----------------------------------------------------------------------------
(* C1: inputs that violate the preconditions *)

StrictlyIncreasing(s) == \A j \in 1..(Len(s) - 1) : s[j] < s[j + 1]

ValidDomains ==
    /\ Len(time_points) > 0
    /\ StrictlyIncreasing(time_points)
    /\ Len(depth_points) > 0
    /\ depth_points[1] = 0

ValidParameters ==
    /\ params.amplitude >= 0
    /\ params.k > 0
    /\ params.P > 0

\* the generator has run to its end or to an exception
Ran == pc \in {"generated", "failed"}

\* C1: run on a time or depth domain that violates its invariants the
\* generator raises InvalidDomainError, run on parameters that violate theirs
\* it raises InvalidParameterError, and in both cases it produces no field
C1_InvalidInputsRejected ==
    Ran =>
        /\ ~ValidDomains =>
               (raised = "InvalidDomainError" /\ soil_temperature = <<>>)
        /\ (ValidDomains /\ ~ValidParameters) =>
               (raised = "InvalidParameterError" /\ soil_temperature = <<>>)

----------------------------------------------------------------------------
(* C2: surface identity *)

\* phaseOffset of the forcing, hours
phaseOffset == 8

\* meanTemperature + amplitude * sin(pi * (t - phaseOffset) / (period / 2))
SurfaceForcing(t) ==
    meanTemperature
        + Mul(amplitude, Sin(Quot(Mul(PI, t - phaseOffset * ONE), P \div 2)))

\* C2: when the field is computed, its first row is the row of depth 0, the
\* decay factor there is 1, the phase lag there is 0, and every cell of the
\* row equals the surface forcing at its time
C2_SurfaceIdentity ==
    FieldComputed =>
        /\ depth_points[1] = 0
        /\ decay_factor(Magnitude(1), k * P) = ONE
        /\ phase_lag(Magnitude(1), k * P) = 0
        /\ \A j \in Times :
               soil_temperature[1][j] = SurfaceForcing(time_points[j])

\* the surface row is there and is not flat
C2_Witness ==
    /\ FieldComputed
    /\ soil_temperature[1][1] < meanTemperature
    /\ soil_temperature[1][57] > meanTemperature

----------------------------------------------------------------------------
(* C3: boundedness *)

\* C3: every cell of the field lies within mean - amplitude .. mean +
\* amplitude, which for the scripts is 15 .. 35 degrees
C3_Bounded ==
    FieldComputed =>
        /\ params.mean - params.amplitude = 15 * ONE
        /\ params.mean + params.amplitude = 35 * ONE
        /\ \A i \in Rows : \A j \in Times :
               /\ soil_temperature[i][j] >= params.mean - params.amplitude
               /\ soil_temperature[i][j] <= params.mean + params.amplitude

\* both bounds are attained at the surface, and a deep row stays near the mean
C3_Witness ==
    /\ FieldComputed
    /\ RowMax(soil_temperature[1]) = 35 * ONE
    /\ RowMin(soil_temperature[1]) = 15 * ONE
    /\ RowMax(soil_temperature[Len(soil_temperature)]) < 26 * ONE

----------------------------------------------------------------------------
(* C4: periodicity *)

\* C4: two cells of a row that are one period apart are equal up to rounding;
\* in the 72-hour script column j equals column j + 96
C4_Periodic ==
    FieldComputed =>
        /\ script = "depth" => PeriodSteps = 96 /\ Len(time_points) = 288
        /\ \A i \in Rows : \A j \in Times :
               j + PeriodSteps \in Times =>
                   /\ time_points[j + PeriodSteps] = time_points[j] + P * ONE
                   /\ Close2(soil_temperature[i][j],
                             soil_temperature[i][j + PeriodSteps])

\* the 72-hour field holds cells one and two periods apart, in a row that is
\* not flat
C4_Witness ==
    /\ FieldComputed
    /\ script = "depth"
    /\ 1 + 2 * PeriodSteps \in Times
    /\ Swing(soil_temperature[11]) > ONE

----------------------------------------------------------------------------
(* C5: monotonic attenuation *)

\* C5: a deeper row never swings more than a shallower one; the decay factor
\* is 1 at the surface and in (0, 1] at every depth of the domain
C5_Attenuation ==
    FieldComputed =>
        LET swing == [i \in Rows |-> Swing(soil_temperature[i])]
            decay == [i \in Rows |-> decay_factor(Magnitude(i), k * P)]
        IN  /\ decay[1] = ONE
            /\ \A i \in Rows : 0 < decay[i] /\ decay[i] <= ONE
            /\ \A i1, i2 \in Rows :
                   (0 <= Magnitude(i1) /\ Magnitude(i1) < Magnitude(i2))
                       => swing[i2] <= swing[i1]

\* the deepest row swings, and swings less than the surface
C5_Witness ==
    /\ FieldComputed
    /\ Swing(soil_temperature[Len(soil_temperature)]) > 0
    /\ Swing(soil_temperature[Len(soil_temperature)]) < Swing(soil_temperature[1])

----------------------------------------------------------------------------
(* C6: monotonic phase lag *)

\* C6: measured from the surface peak and modulo one period, a deeper row
\* peaks at or after a shallower one; the lag of the formula is 0 at the
\* surface and its magnitude grows with the depth magnitude
C6_PhaseLag ==
    FieldComputed =>
        LET peak == [i \in Rows |-> PeakLag(i)]
            lag == [i \in Rows |-> phase_lag(Magnitude(i), k * P)]
        IN  /\ peak[1] = 0
            /\ lag[1] = 0
            /\ \A i1, i2 \in Rows :
                   (0 <= Magnitude(i1) /\ Magnitude(i1) < Magnitude(i2))
                       => /\ peak[i1] <= peak[i2]
                          /\ Abs(lag[i1]) < Abs(lag[i2])

\* the deepest row peaks more than half a period after the surface
C6_Witness ==
    /\ FieldComputed
    /\ 2 * PeakLag(Len(soil_temperature)) > PeriodSteps

----------------------------------------------------------------------------
(* C7: the field is immutable once computed *)

\* C7: once a soil script has computed its field, no step changes the field,
\* the time domain or the depth domain
C7_FieldImmutable ==
    [][FieldReady => UNCHANGED <<soil_temperature, time_points, depth_points>>]_vars

\* update(frame) has run for a frame other than 0 and the field is there
C7_Witness ==
    /\ FieldReady
    /\ Rendered
    /\ time_text # <<0, 0>>
    /\ Len(soil_temperature) > 0

----------------------------------------------------------------------------
(* C8: the concrete scenario, which is the 24-hour script *)

\* C8: over [0, 24) in steps of 0.25 the surface row peaks at t = 14, frame
\* 56, with 35.0 degrees, and the row at depth -50 swings less than a tenth
\* of what the surface row swings
C8_Scenario ==
    (FieldComputed /\ script = "profile") =>
        LET surface == soil_temperature[1]
            deepest == soil_temperature[Len(soil_temperature)]
        IN  /\ depth_points[1] = 0
            /\ depth_points[Len(depth_points)] = -50 * ONE
            /\ time_points[56 + 1] = 14 * ONE
            /\ Close2(surface[56 + 1], 35 * ONE)
            /\ surface[56 + 1] = RowMax(surface)
            /\ TimeOfMax(surface) = 56
            /\ 10 * Swing(deepest) < Swing(surface)

\* the 24-hour field, whose deepest row still swings
C8_Witness ==
    /\ FieldComputed
    /\ script = "profile"
    /\ Len(time_points) = 96
    /\ Swing(soil_temperature[Len(soil_temperature)]) > 0

----------------------------------------------------------------------------
(* C9: the depth-comparison animation *)

\* what update(f) leaves on the figure
ShowsFrame(f) ==
    /\ time_marker = time_points[f + 1]
    /\ \A n \in 1..4 :
           \E i \in Rows :
               /\ depth_points[i] = depths_to_plot[n] * ONE
               /\ Len(lines[n].x) = f + 1
               /\ Len(lines[n].y) = f + 1
               /\ \A j \in 1..(f + 1) :
                      /\ lines[n].x[j] = time_points[j]
                      /\ lines[n].y[j] = soil_temperature[i][j]

\* C9: after any sequence of update calls of the depth script, the marker is
\* at the time of some frame f and each of the four curves holds exactly the
\* samples 0..f of the row whose depth is -5, -10, -20, -50 cm
C9_CurvesUpToFrame ==
    (script = "depth" /\ Rendered) =>
        \E f \in 0..(Len(time_points) - 1) : ShowsFrame(f)

\* a frame in the second day is shown
C9_Witness ==
    /\ script = "depth"
    /\ Rendered
    /\ time_marker = 30 * ONE
    /\ Len(lines[4].y) = 121

----------------------------------------------------------------------------
(* C10: the TDR waveform animation *)

AllAnnotations == {an_x1, an_x1_text, an_x2, an_x2_text, an_La, an_La_text}

\* frames 0..frame_seq - 1 have been rendered, in this order
C10_State ==
    (script = "tdr" /\ pc # "start") =>
        /\ an_x1 = an_x1_text
        /\ an_x2 = an_x2_text /\ an_x2 = an_La /\ an_x2 = an_La_text
        /\ an_x2 => an_x1
        /\ an_x1 = (frame_seq > 0 /\ signal_arrow > Cm(cable_apparent_length + 2))
        /\ an_x2 = (frame_seq > 0 /\ signal_arrow > Cm(total_apparent_length + 2))
        /\ frame_seq > 0 => signal_arrow = current_dist(frame_seq - 1)
        /\ frame_seq = num_frames + 1 =>
               /\ signal_arrow = Cm(plot_end_distance)
               /\ AllAnnotations = {TRUE}
               /\ Cardinality(waveform_line) = WaveformSamples

C10_Step ==
    /\ an_x1 => an_x1'
    /\ an_x1_text => an_x1_text'
    /\ an_x2 => an_x2'
    /\ an_x2_text => an_x2_text'
    /\ an_La => an_La'
    /\ an_La_text => an_La_text'
    /\ (script = "tdr" /\ frame_seq' # frame_seq) =>
           /\ frame_seq' = frame_seq + 1
           /\ signal_arrow' > signal_arrow

\* C10: frames are rendered in increasing order and the signal moves forward;
\* x1 and its label show exactly when a rendered frame is past x1 + 2; x2,
\* its label and the L_a arrow and text show exactly when one is past x2 + 2,
\* so x2 visible implies x1 visible; nothing visible is hidden again; after
\* frame num_frames the signal is at plot_end_distance, every annotation is
\* visible and all 800 samples are drawn
C10_Annotations == [](C10_State) /\ [][C10_Step]_vars

\* x1 is shown and x2 is not yet
C10_Witness ==
    /\ script = "tdr"
    /\ an_x1 /\ ~an_x2
    /\ frame_seq = 100

====
